---- MODULE Spec2Model ----
(***************************************************************************)
(* SoftWire: a bit-banged I2C bus master.                                  *)
(*                                                                         *)
(* The model follows src/src/SoftWire.cpp statement by statement.  Every   *)
(* function of the bit engine is an action whose disjuncts are the         *)
(* function's line-level steps (one step per pin operation or per branch); *)
(* `stack' is the call stack, innermost frame first.  The slave and the    *)
(* deadline timers are the environment: the slave may pull either line low *)
(* or let it go at any time, and a running timer may expire at any time.   *)
(***************************************************************************)
EXTENDS Integers, Sequences, FiniteSets, TLC

\* ------------------------------------------------------------------ bounds
\* Capacity of the transmit buffer handed to setTxBuffer.
TxBufferSize == 2
\* Capacity of the receive buffer handed to setRxBuffer.
RxBufferSize == 2
\* Largest quantity asked of requestFrom.
MaxQuantity == 2
\* Longest array handed to write(data, quantity).
MaxWriteLen == 3
\* Largest frequency of the contiguous range tried by setClock.
MaxFreq == 600
\* Longest byte sequence folded through crc8_update.
MaxCrcLen == 3

\* Cells of memory modelled from the start of the receive buffer on.
RxCells == IF MaxQuantity > RxBufferSize THEN MaxQuantity ELSE RxBufferSize
\* Bytes the caller writes, addresses it uses, bytes the slave sends.
TxBytes == {165, 60}
Addresses == {80}
SlaveBytes == {0, 1}
\* Every value of a uint8_t, and the bytes folded through crc8_update.
Bytes == 0 .. 255
CrcBytes == {0, 1, 128, 255}
\* What a read outside the receive buffer may find besides what was stored.
Garbage == {255}
\* Frequencies tried by setClock: a contiguous low range and the edges.
Frequencies ==
    (1 .. MaxFreq) \cup (1955 .. 1965)
        \cup {3921, 3922, 100000, 400000, 499999, 500000, 500001, 1000000,
              1000001, 2147483647}

\* --------------------------------------------------------------- constants
\* result_t and mode_t of SoftWire.h; the code relies on ack = 0
\* ("start(...) == 0", "if (llRead(...)) break").
ack == 0
nack == 1
timedOut == 2
writeMode == 0
readMode == 1

Timers == {"stop", "llWrite", "llRead", "llStartWait"}

VARIABLES
    stack,      \* call stack: sequence of [f, l], innermost first
    res,        \* value returned by the last function that returned
    stretchOk,  \* value returned by the last setSclHighAndStretch
    lastRet,    \* the return made by the latest master step, if it was one
    ret,        \* last completed public call: [op, val, arg]
    sdaLow,     \* master drives SDA low
    sclLow,     \* master drives SCL low
    slvSda,     \* slave drives SDA low (its level when the master last sampled)
    slvScl,     \* slave holds SCL low (clock stretching)
    expired,    \* per function: its AsyncDelay has expired
    loc,        \* arguments and locals of the running functions (see loc0)
    txAddress, txBuffer, txBufferSize, txBufferIndex, writeError,
    rxBuffer, rxBufferSize, rxBufferIndex, rxBufferBytesRead,
    delay_us,
    wLog,       \* llWrite calls of the current public call: <<byte, result>>
    ackLog,     \* 9th-clock answers of the master in the current requestFrom
    okReads,    \* llRead calls of the current requestFrom that returned ack
    samples,    \* levels of SDA sampled by the current or latest llRead
    events      \* line events of the current or latest stop, in order

lineM == <<sdaLow, sclLow>>
slave == <<slvSda, slvScl>>
tx == <<txAddress, txBuffer, txBufferSize, txBufferIndex, writeError>>
rxv == <<rxBuffer, rxBufferSize, rxBufferIndex, rxBufferBytesRead>>
callLog == <<wLog, ackLog, okReads>>
ghost == <<callLog, samples, events>>
ctl == <<stack, res, stretchOk, lastRet, ret, expired, loc>>
vars == <<ctl, lineM, slave, tx, rxv, delay_us, ghost>>

\* Arguments and locals, as they are while their function is not running.
loc0 ==
    [rawAddr |-> 0,                       \* llStart, llStartWait: rawAddr
     wByte |-> 0,                         \* llWrite: data as passed
     wData |-> 0, wI |-> 0, wRes |-> 0,   \* llWrite: data, i, res
     rIdx |-> 0,                          \* llRead: data refers to _rxBuffer[rIdx]
     rI |-> 0, rSendAck |-> FALSE,        \* llRead: i, sendAck
     eI |-> 0, eSendStop |-> FALSE,       \* endTransmission: i, sendStop
     fI |-> 0, fQuantity |-> 0, fSendStop |-> FALSE]  \* requestFrom


\* ----------------------------------------------------------------- helpers
NoRet == [f |-> "none", r |-> 0]
Top == Head(stack)
Idle == stack = <<>>
At(f, l) == stack # <<>> /\ Top.f = f /\ Top.l = l
OnStack(f) == \E k \in 1 .. Len(stack) : stack[k].f = f

\* Level of each open-drain line: high unless somebody pulls it low.
readScl == ~(sclLow \/ slvScl)
readSda == ~(sdaLow \/ slvSda)

setSdaLow == sdaLow' = TRUE /\ UNCHANGED sclLow
\* setSdaHigh leaving the pin an output driven low.
setSdaHighStaysOutput == UNCHANGED <<sdaLow, sclLow>>
setSdaHigh == sdaLow' = FALSE /\ UNCHANGED sclLow
\* setSclLow leaving the pin an input.
setSclLowStaysInput == UNCHANGED <<sdaLow, sclLow>>
setSclLow == sclLow' = TRUE /\ UNCHANGED sdaLow
setSclHigh == sclLow' = FALSE /\ UNCHANGED sdaLow

\* Control flow of one master step: go on at label l, the locals becoming nl.
GotoSet(l, nl) ==
    /\ stack' = <<[Top EXCEPT !.l = l]>> \o Tail(stack)
    /\ loc' = nl
    /\ lastRet' = NoRet
    /\ UNCHANGED <<res, stretchOk, ret, expired>>

Goto(l) == GotoSet(l, loc)

\* Call f with the arguments in nl; the caller resumes at retl.  A function
\* that owns an AsyncDelay constructs it on entry.
CallSet(f, retl, nl) ==
    /\ stack' = <<[f |-> f, l |-> "0"], [Top EXCEPT !.l = retl]>> \o Tail(stack)
    /\ loc' = nl
    /\ lastRet' = NoRet
    /\ expired' = IF f \in Timers THEN [expired EXCEPT ![f] = FALSE] ELSE expired
    /\ UNCHANGED <<res, stretchOk, ret>>

Call(f, retl) == CallSet(f, retl, loc)

\* Return v from the current function.  A public call that returns is
\* recorded in ret, and nothing of its frames is left.
Return(v) ==
    /\ stack' = Tail(stack)
    /\ lastRet' = [f |-> Top.f, r |-> v]
    /\ expired' = IF Top.f \in Timers THEN [expired EXCEPT ![Top.f] = FALSE]
                  ELSE expired
    /\ IF Len(stack) = 1
       THEN /\ ret' = [op |-> Top.f, val |-> v, arg |-> ret.arg]
            /\ res' = ack /\ stretchOk' = TRUE /\ loc' = loc0
       ELSE /\ res' = v
            /\ UNCHANGED <<ret, stretchOk, loc>>

\* Return b from setSclHighAndStretch.
ReturnStretch(b) ==
    /\ stack' = Tail(stack)
    /\ stretchOk' = b
    /\ lastRet' = [f |-> Top.f, r |-> IF b THEN 1 ELSE 0]
    /\ UNCHANGED <<res, ret, expired, loc>>

\* A public call, made while no other is running, with the arguments in nl.
Enter(f, a, nl) ==
    /\ Idle
    /\ stack' = <<[f |-> f, l |-> "0"]>>
    /\ loc' = nl
    /\ lastRet' = NoRet
    /\ ret' = [op |-> "none", val |-> 0, arg |-> a]
    /\ expired' = IF f \in Timers THEN [expired EXCEPT ![f] = FALSE] ELSE expired
    /\ UNCHANGED <<res, stretchOk>>
    /\ wLog' = <<>> /\ ackLog' = <<>> /\ okReads' = 0
    /\ samples' = <<>> /\ events' = <<>>

\* A public call that does not touch the bus and returns at once.
Atomic(op, v, a) ==
    /\ Idle
    /\ ret' = [op |-> op, val |-> v, arg |-> a]
    /\ lastRet' = NoRet
    /\ UNCHANGED <<stack, res, stretchOk, expired, loc>>
    /\ wLog' = <<>> /\ ackLog' = <<>> /\ okReads' = 0
    /\ samples' = <<>> /\ events' = <<>>

\* The timer the current setSclHighAndStretch was handed: its caller's.
CallerTimer == stack[2].f

\* The arguments of llWrite(data) and of llRead(_rxBuffer[idx], sendAck).
WriteArgs(data) ==
    [loc EXCEPT !.wByte = data, !.wData = data, !.wI = 8, !.wRes = ack]
ReadArgs(idx, sendAck) ==
    [loc EXCEPT !.rIdx = idx, !.rI = 8, !.rSendAck = sendAck]

\* No public call has been made yet.
NoCall == [op |-> "none", val |-> 0, arg |-> 0]

\* The object after construction and after setTxBuffer and setRxBuffer have
\* handed it buffers of TxBufferSize and rxCap bytes, with the address addr
\* and the first idx cells of buf in the transmit buffer; r is what the
\* caller is about to pass to the next call, if the call is a pure function.
InitObject(addr, buf, idx, rxCap, r) ==
    /\ stack = <<>>
    /\ res = ack
    /\ stretchOk = TRUE
    /\ lastRet = NoRet
    /\ ret = r
    /\ sdaLow = FALSE /\ sclLow = FALSE
    /\ slvSda = FALSE /\ slvScl = FALSE
    /\ expired = [t \in Timers |-> FALSE]
    /\ loc = loc0
    /\ txAddress = addr
    /\ txBuffer = buf
    /\ txBufferSize = TxBufferSize
    /\ txBufferIndex = idx
    /\ writeError = FALSE
    /\ rxBuffer = [k \in 0 .. RxCells - 1 |-> 0]
    /\ rxBufferSize = rxCap
    /\ rxBufferIndex = 0
    /\ rxBufferBytesRead = 0
    /\ delay_us = 5
    /\ wLog = <<>> /\ ackLog = <<>> /\ okReads = 0
    /\ samples = <<>> /\ events = <<>>

\* The object with a receive buffer of RxBufferSize bytes.
InitWith(addr, buf, idx) == InitObject(addr, buf, idx, RxBufferSize, NoCall)

\* After construction: _txAddress is 8 and nothing is buffered.
Init == InitWith(8, [k \in 0 .. TxBufferSize - 1 |-> 0], 0)

\* The object as constructed (_rxBufferSize is 0), or with a receive buffer
\* shorter than the largest quantity asked of requestFrom.
InitRxCapacity ==
    \E rxCap \in 0 .. RxBufferSize - 1 :
        InitObject(8, [k \in 0 .. TxBufferSize - 1 |-> 0], 0, rxCap, NoCall)

\* After beginTransmission(80) and write(165).
InitLive == InitWith(80, [k \in 0 .. TxBufferSize - 1 |-> IF k = 0 THEN 165 ELSE 0], 1)

\* ------------------------------------------------------------- environment
\* The slave pulls SCL low (clock stretching) or lets it go.
SlaveScl ==
    /\ slvScl' = ~slvScl
    /\ UNCHANGED <<ctl, lineM, slvSda, tx, rxv, delay_us, ghost>>

\* A running deadline timer expires.  All timers run for the same duration,
\* so the timer of a caller, started earlier, has expired before its callee's.
TimerExpire ==
    \E k \in 1 .. Len(stack) :
        /\ stack[k].f \in Timers
        /\ ~expired[stack[k].f]
        /\ \A j \in k + 1 .. Len(stack) :
               stack[j].f \in Timers => expired[stack[j].f]
        /\ expired' = [expired EXCEPT ![stack[k].f] = TRUE]
        /\ UNCHANGED <<stack, res, stretchOk, lastRet, ret, loc, lineM, slave,
                       tx, rxv, delay_us, ghost>>

\* -------------------------------------------------------------- bit engine
\* What a step of the bit engine leaves alone besides control and the lines.
rest == <<slave, tx, rxv, delay_us, ghost>>

\* What a step of stop leaves alone besides control, the lines and events.
stopRest == <<slave, tx, rxv, delay_us, callLog, samples>>

\* A line event is recorded while stop is running, also inside the
\* setSclHighAndStretch it calls.
Event(e) ==
    events' = IF OnStack("stop") THEN Append(events, e) ELSE events

\* setSclHighAndStretch(timeout): release SCL, then wait until SCL reads high
\* or the caller's deadline has expired.
setSclHighAndStretch ==
    \/ /\ At("setSclHighAndStretch", "0")
       /\ setSclHigh
       /\ Goto("wait")
       /\ Event("SCL released")
       /\ UNCHANGED stopRest
    \/ /\ At("setSclHighAndStretch", "wait")
       /\ readScl
       /\ ReturnStretch(TRUE)
       /\ Event("SCL read high")
       /\ UNCHANGED <<lineM, stopRest>>
    \/ /\ At("setSclHighAndStretch", "wait")
       /\ ~readScl
       /\ expired[CallerTimer]
       /\ ReturnStretch(FALSE)
       /\ Event("deadline expired")
       /\ UNCHANGED <<lineM, stopRest>>

\* StopWaitFailed with the result of the wait not looked at.
StopWaitIgnored == FALSE

\* "if (!setSclHighAndStretch(timeout))" of stop.
StopWaitFailed == ~stretchOk

\* stop(): SCL low, SDA low, release SCL and wait for it, release SDA.
stop ==
    \/ /\ Enter("stop", IF ret.op = "stop" /\ ret.val = ack THEN 1 ELSE 0, loc)
       /\ UNCHANGED <<lineM, slave, tx, rxv, delay_us>>
    \/ /\ At("stop", "0")
       /\ setSclLow
       /\ Goto("sda")
       /\ events' = <<"SCL low">>
       /\ UNCHANGED stopRest
    \/ /\ At("stop", "sda")
       /\ setSdaLow
       /\ Call("setSclHighAndStretch", "stretched")
       /\ Event("SDA low")
       /\ UNCHANGED stopRest
    \/ /\ At("stop", "stretched")
       /\ StopWaitFailed
       /\ Return(timedOut)
       /\ UNCHANGED <<lineM, rest>>
    \/ /\ At("stop", "stretched")
       /\ ~StopWaitFailed
       /\ setSdaHigh
       /\ Return(ack)
       /\ Event("SDA released")
       /\ UNCHANGED stopRest

\* begin(): a stop.
begin ==
    \/ /\ Enter("begin", 0, loc)
       /\ UNCHANGED <<lineM, slave, tx, rxv, delay_us>>
    \/ /\ At("begin", "0")
       /\ Call("stop", "stopped")
       /\ UNCHANGED <<lineM, rest>>
    \/ /\ At("begin", "stopped")
       /\ Return(0)
       /\ UNCHANGED <<lineM, rest>>

\* start(address, rwMode) of SoftWire.h: the raw address byte it hands to
\* llStart, a uint8_t.
start(address, rwMode) == (address * 2 + rwMode) % 256

\* llStart(rawAddr): SDA low, SCL low, then the address byte.
llStart ==
    \/ /\ At("llStart", "0")
       /\ setSdaLow
       /\ Goto("scl")
       /\ UNCHANGED rest
    \/ /\ At("llStart", "scl")
       /\ setSclLow
       /\ CallSet("llWrite", "written", WriteArgs(loc.rawAddr))
       /\ UNCHANGED rest
    \/ /\ At("llStart", "written")
       /\ Return(res)
       /\ UNCHANGED <<lineM, rest>>

\* llStartWait(rawAddr).  The nack case of the switch has no break or
\* continue: it falls through into the default case.
llStartWait ==
    \/ /\ \E a \in Addresses : \E m \in {writeMode, readMode} :
              Enter("llStartWait", a, [loc EXCEPT !.rawAddr = start(a, m)])
       /\ UNCHANGED <<lineM, slave, tx, rxv, delay_us>>
    \/ /\ At("llStartWait", "0")
       /\ expired["llStartWait"]
       /\ Return(timedOut)
       /\ UNCHANGED <<lineM, rest>>
    \/ /\ At("llStartWait", "0")
       /\ ~expired["llStartWait"]
       /\ setSdaLow
       /\ CallSet("llWrite", "written", WriteArgs(loc.rawAddr))
       /\ UNCHANGED rest
    \/ /\ At("llStartWait", "written")
       /\ res = ack
       /\ Return(ack)
       /\ UNCHANGED <<lineM, rest>>
    \/ /\ At("llStartWait", "written")
       /\ res = nack
       /\ Call("stop", "nackStopped")
       /\ UNCHANGED <<lineM, rest>>
    \/ /\ At("llStartWait", "written")
       /\ res \notin {ack, nack}
       /\ Call("stop", "stopped")
       /\ UNCHANGED <<lineM, rest>>
    \/ /\ At("llStartWait", "nackStopped")
       /\ Call("stop", "stopped")
       /\ UNCHANGED <<lineM, rest>>
    \/ /\ At("llStartWait", "stopped")
       /\ Return(timedOut)
       /\ UNCHANGED <<lineM, rest>>

\* A direct call of llWrite(data).
llWriteCall ==
    /\ \E data \in Bytes : Enter("llWrite", data, WriteArgs(data))
    /\ UNCHANGED <<lineM, slave, tx, rxv, delay_us>>

\* llWrite returns r: the call and its outcome are logged.
ReturnWrite(r) ==
    /\ Return(r)
    /\ wLog' = Append(wLog, <<loc.wByte, r>>)
    /\ UNCHANGED <<ackLog, okReads, samples, events>>

\* What a step of llWrite leaves alone besides control, the lines and the log.
writeRest == <<tx, rxv, delay_us>>

\* DataBit testing the lowest bit of data.
DataBitLowest(data) == data % 2 = 1

\* "data & 0x80" of llWrite.
DataBit(data) == data >= 128

\* llWrite(data): eight data bits, most significant first, then the slave's
\* acknowledge bit, which the slave presents when the master samples it.
llWrite ==
    \/ /\ At("llWrite", "0")
       /\ setSclLow
       /\ Goto(IF loc.wI # 0 THEN "bit" ELSE "release")
       /\ UNCHANGED rest
    \/ /\ At("llWrite", "bit")
       /\ IF DataBit(loc.wData) THEN setSdaHigh ELSE setSdaLow
       /\ Call("setSclHighAndStretch", "clocked")
       /\ UNCHANGED rest
    \/ /\ At("llWrite", "clocked")
       /\ ~stretchOk
       /\ ReturnWrite(timedOut)
       /\ UNCHANGED <<lineM, slave, writeRest>>
    \/ /\ At("llWrite", "clocked")
       /\ stretchOk
       /\ expired["llWrite"]
       /\ CallSet("stop", "stopped", [loc EXCEPT !.wData = (loc.wData * 2) % 256])
       /\ UNCHANGED <<lineM, rest>>
    \/ /\ At("llWrite", "clocked")
       /\ stretchOk
       /\ ~expired["llWrite"]
       /\ GotoSet("0", [loc EXCEPT !.wData = (loc.wData * 2) % 256,
                                   !.wI = loc.wI - 1])
       /\ UNCHANGED <<lineM, rest>>
    \/ /\ At("llWrite", "stopped")
       /\ ReturnWrite(timedOut)
       /\ UNCHANGED <<lineM, slave, writeRest>>
    \/ /\ At("llWrite", "release")
       /\ setSdaHigh
       /\ Call("setSclHighAndStretch", "ackClocked")
       /\ UNCHANGED rest
    \/ /\ At("llWrite", "ackClocked")
       /\ ~stretchOk
       /\ ReturnWrite(timedOut)
       /\ UNCHANGED <<lineM, slave, writeRest>>
    \/ /\ At("llWrite", "ackClocked")
       /\ stretchOk
       /\ \E low \in BOOLEAN :
              /\ slvSda' = low
              /\ GotoSet("hold", [loc EXCEPT !.wRes = IF sdaLow \/ low THEN ack
                                                     ELSE nack])
       /\ UNCHANGED <<lineM, slvScl, writeRest, ghost>>
    \/ /\ At("llWrite", "hold")
       /\ setSclLow
       /\ ReturnWrite(loc.wRes)
       /\ UNCHANGED <<slave, writeRest>>

\* The bits a slave may present for the sample taken with loop counter i: it
\* is sending any byte when llRead was called directly, one of SlaveBytes
\* under requestFrom, given the bits sampled so far (data has
\* already been shifted left for this bit).
SlaveBits(data, i) ==
    LET sent == IF stack[Len(stack)].f = "llRead" THEN Bytes ELSE SlaveBytes
        fits == {b \in sent : b \div (2 ^ i) = data \div 2}
    IN  IF fits = {} THEN {0, 1}
        ELSE {(b \div (2 ^ (i - 1))) % 2 : b \in fits}

\* ShiftIn shifting the other way.
ShiftInRight(data) == data \div 2

\* "data <<= 1" of llRead, data a uint8_t.
ShiftIn(data) == (data * 2) % 256

\* Store v through llRead's reference `data', which is _rxBuffer[rIdx].
StoreData(v) ==
    /\ rxBuffer' = [rxBuffer EXCEPT ![loc.rIdx] = v]
    /\ UNCHANGED <<rxBufferSize, rxBufferIndex, rxBufferBytesRead>>

\* StretchExpired with the deadline never looked at.
StretchNeverExpires == FALSE

\* The exit of llRead's "while (_readScl(this) == LOW) if (timeout.isExpired())".
StretchExpired == ~readScl /\ expired["llRead"]

\* A direct call of llRead(data, sendAck), data being a byte of the caller's,
\* here the first cell of the receive buffer.
llReadCall ==
    /\ \E sendAck \in BOOLEAN :
           Enter("llRead", IF sendAck THEN 1 ELSE 0, ReadArgs(0, sendAck))
    /\ UNCHANGED <<lineM, slave, tx, rxv, delay_us>>

\* llRead returns r.
ReturnRead(r) ==
    /\ Return(r)
    /\ okReads' = IF r = ack THEN okReads + 1 ELSE okReads
    /\ UNCHANGED <<wLog, ackLog, samples, events>>

readRest == <<tx, delay_us>>

\* llRead(data, sendAck): eight samples, most significant bit first, then the
\* master's acknowledge bit.  The slave presents each data bit when the master
\* samples it.
llRead ==
    \/ /\ At("llRead", "0")
       /\ StoreData(0)
       /\ Goto("loop")
       /\ samples' = <<>>
       /\ UNCHANGED <<lineM, slave, callLog, events, readRest>>
    \/ /\ At("llRead", "loop")
       /\ loc.rI # 0
       /\ StoreData(ShiftIn(rxBuffer[loc.rIdx]))
       /\ setSclLow
       /\ Goto("release")
       /\ UNCHANGED <<slave, ghost, readRest>>
    \/ /\ At("llRead", "loop")
       /\ loc.rI = 0
       /\ setSclLow
       /\ Goto("putAck")
       /\ UNCHANGED rest
    \/ /\ At("llRead", "release")
       /\ setSdaHigh
       /\ Call("setSclHighAndStretch", "clocked")
       /\ UNCHANGED rest
    \/ /\ At("llRead", "clocked")
       /\ ~stretchOk
       /\ ReturnRead(timedOut)
       /\ UNCHANGED <<lineM, slave, rxv, readRest>>
    \/ /\ At("llRead", "clocked")
       /\ stretchOk
       /\ Goto("sample")
       /\ UNCHANGED <<lineM, rest>>
    \/ /\ At("llRead", "sample")
       /\ StretchExpired
       /\ Call("stop", "stopped")
       /\ UNCHANGED <<lineM, rest>>
    \/ /\ At("llRead", "sample")
       /\ readScl
       /\ \E bit \in SlaveBits(rxBuffer[loc.rIdx], loc.rI) :
              /\ slvSda' = (bit = 0)
              /\ StoreData(IF ~(sdaLow \/ slvSda') THEN rxBuffer[loc.rIdx] + 1
                           ELSE rxBuffer[loc.rIdx])
              /\ samples' = Append(samples, IF sdaLow \/ slvSda' THEN 0 ELSE 1)
       /\ GotoSet("loop", [loc EXCEPT !.rI = loc.rI - 1])
       /\ UNCHANGED <<lineM, slvScl, callLog, events, readRest>>
    \/ /\ At("llRead", "putAck")
       /\ IF loc.rSendAck THEN setSdaLow ELSE setSdaHigh
       /\ Call("setSclHighAndStretch", "ackClocked")
       /\ UNCHANGED rest
    \/ /\ At("llRead", "ackClocked")
       /\ ~stretchOk
       /\ ReturnRead(timedOut)
       /\ UNCHANGED <<lineM, slave, rxv, readRest>>
    \/ /\ At("llRead", "ackClocked")
       /\ stretchOk
       /\ ackLog' = Append(ackLog, sdaLow)
       /\ Goto("ackWait")
       /\ UNCHANGED <<lineM, slave, rxv, wLog, okReads, samples, events,
                      readRest>>
    \/ /\ At("llRead", "ackWait")
       /\ StretchExpired
       /\ Call("stop", "stopped")
       /\ UNCHANGED <<lineM, rest>>
    \/ /\ At("llRead", "ackWait")
       /\ readScl
       /\ setSclLow
       /\ ReturnRead(ack)
       /\ UNCHANGED <<slave, rxv, readRest>>
    \/ /\ At("llRead", "stopped")
       /\ ReturnRead(timedOut)
       /\ UNCHANGED <<lineM, slave, rxv, readRest>>

\* ---------------------------------------------------- byte transaction layer
\* What a call that does not touch the bus leaves alone.
busRest == <<lineM, slave>>

\* available()
available ==
    /\ Atomic("available", rxBufferBytesRead - rxBufferIndex, 0)
    /\ UNCHANGED <<busRest, tx, rxv, delay_us>>

\* writeOne with the capacity test off by one.
writeOnePastEnd(s, data) ==
    IF s.idx > txBufferSize
    THEN [s EXCEPT !.err = TRUE]
    ELSE [s EXCEPT !.buf[s.idx] = data, !.idx = s.idx + 1, !.n = s.n + 1]

\* One write(data) on the transmit state s = [buf, idx, err, n]; n counts the
\* calls that returned 1.
writeOne(s, data) ==
    IF s.idx >= txBufferSize
    THEN [s EXCEPT !.err = TRUE]
    ELSE [s EXCEPT !.buf[s.idx] = data, !.idx = s.idx + 1, !.n = s.n + 1]

\* The loop of write(data, quantity) from element i on.
RECURSIVE writeLoop(_, _, _)
writeLoop(s, data, i) ==
    IF i > Len(data) THEN s ELSE writeLoop(writeOne(s, data[i]), data, i + 1)

txState == [buf |-> txBuffer, idx |-> txBufferIndex, err |-> writeError, n |-> 0]

\* write(data)
write ==
    \E data \in TxBytes :
        LET s == writeOne(txState, data)
        IN  /\ Atomic("write", s.n, data)
            /\ txBuffer' = s.buf
            /\ txBufferIndex' = s.idx
            /\ writeError' = s.err
            /\ UNCHANGED <<txAddress, txBufferSize, busRest, rxv, delay_us>>

\* The arrays handed to write(data, quantity).
RECURSIVE SeqsUpTo(_, _)
SeqsUpTo(S, n) ==
    IF n = 0 THEN {<<>>}
    ELSE LET shorter == SeqsUpTo(S, n - 1)
         IN  shorter \cup {Append(q, x) : q \in shorter, x \in S}

\* write(data, quantity)
writeBytes ==
    \E data \in SeqsUpTo(TxBytes, MaxWriteLen) :
        LET s == writeLoop(txState, data, 1)
        IN  /\ Atomic("writeBytes", s.n, Len(data))
            /\ txBuffer' = s.buf
            /\ txBufferIndex' = s.idx
            /\ writeError' = s.err
            /\ UNCHANGED <<txAddress, txBufferSize, busRest, rxv, delay_us>>

\* What reading _rxBuffer[i] may yield: the cell, or, outside the buffer,
\* whatever lies there.
ReadCell(i) ==
    IF i < rxBufferSize THEN {rxBuffer[i]}
    ELSE Garbage \cup (IF i < RxCells THEN {rxBuffer[i]} ELSE {})

\* The cell read() indexes: the cursor is incremented before it is used.
readCursor == rxBufferIndex + 1

\* read()
read ==
    \/ /\ rxBufferIndex < rxBufferBytesRead
       /\ \E v \in ReadCell(readCursor) : Atomic("read", v, rxBufferIndex)
       /\ rxBufferIndex' = rxBufferIndex + 1
       /\ UNCHANGED <<rxBuffer, rxBufferSize, rxBufferBytesRead, busRest, tx,
                      delay_us>>
    \/ /\ ~(rxBufferIndex < rxBufferBytesRead)
       /\ Atomic("read", -1, rxBufferIndex)
       /\ UNCHANGED <<rxv, busRest, tx, delay_us>>

\* peek()
peek ==
    \/ /\ rxBufferIndex < rxBufferBytesRead
       /\ \E v \in ReadCell(rxBufferIndex) : Atomic("peek", v, rxBufferIndex)
       /\ UNCHANGED <<rxv, busRest, tx, delay_us>>
    \/ /\ ~(rxBufferIndex < rxBufferBytesRead)
       /\ Atomic("peek", -1, rxBufferIndex)
       /\ UNCHANGED <<rxv, busRest, tx, delay_us>>

\* setDelay_us(delay_us) of SoftWire.h: stores its uint8_t argument.
setDelay_us(d) == d % 256

\* ClockDelay without the ceiling of 2 * 255.
ClockDelayNoCeiling(frequency) ==
    LET period_us == 1000000 \div frequency
        clamped == IF period_us < 2 THEN 2 ELSE period_us
    IN  setDelay_us(clamped \div 2)

\* The half-bit delay setClock(frequency) derives, frequency a uint32_t >= 1.
ClockDelay(frequency) ==
    LET period_us == 1000000 \div frequency
        clamped == IF period_us < 2 THEN 2
                   ELSE IF period_us > 2 * 255 THEN 2 * 255
                   ELSE period_us
    IN  setDelay_us(clamped \div 2)

\* setClock(frequency)
setClock ==
    \E frequency \in Frequencies :
        /\ Atomic("setClock", 0, frequency)
        /\ delay_us' = ClockDelay(frequency)
        /\ UNCHANGED <<busRest, tx, rxv>>

\* beginTransmission(address)
beginTransmission ==
    \E address \in Addresses :
        /\ Atomic("beginTransmission", 0, address)
        /\ txAddress' = address
        /\ txBufferIndex' = 0
        /\ UNCHANGED <<txBuffer, txBufferSize, writeError, busRest, rxv,
                       delay_us>>

\* The statuses endTransmission returns.
success == 0
addressNack == 2
timeout == 4
\* dataNack returning what the address phase returns.
dataNackAsAddress == addressNack
dataNack == 3

\* endTransmission(sendStop)
endTransmission ==
    \/ /\ \E sendStop \in BOOLEAN :
              Enter("endTransmission", IF sendStop THEN 1 ELSE 0,
                    [loc EXCEPT !.eSendStop = sendStop])
       /\ UNCHANGED <<busRest, tx, rxv, delay_us>>
    \/ /\ At("endTransmission", "0")
       /\ CallSet("llStart", "started",
                  [loc EXCEPT !.rawAddr = start(txAddress, writeMode)])
       /\ UNCHANGED <<lineM, rest>>
    \/ /\ At("endTransmission", "started")
       /\ res = nack
       /\ Return(addressNack)
       /\ UNCHANGED <<lineM, rest>>
    \/ /\ At("endTransmission", "started")
       /\ res = timedOut
       /\ Return(timeout)
       /\ UNCHANGED <<lineM, rest>>
    \/ /\ At("endTransmission", "started")
       /\ res \notin {nack, timedOut}
       /\ GotoSet("loop", [loc EXCEPT !.eI = 0])
       /\ UNCHANGED <<lineM, rest>>
    \/ /\ At("endTransmission", "loop")
       /\ loc.eI < txBufferIndex
       /\ CallSet("llWrite", "written", WriteArgs(txBuffer[loc.eI]))
       /\ UNCHANGED <<lineM, rest>>
    \/ /\ At("endTransmission", "written")
       /\ res = nack
       /\ Return(dataNack)
       /\ UNCHANGED <<lineM, rest>>
    \/ /\ At("endTransmission", "written")
       /\ res = timedOut
       /\ Return(timeout)
       /\ UNCHANGED <<lineM, rest>>
    \/ /\ At("endTransmission", "written")
       /\ res \notin {nack, timedOut}
       /\ GotoSet("loop", [loc EXCEPT !.eI = (loc.eI + 1) % 256])
       /\ UNCHANGED <<lineM, rest>>
    \/ /\ At("endTransmission", "loop")
       /\ ~(loc.eI < txBufferIndex)
       /\ loc.eSendStop
       /\ Call("stop", "stopped")
       /\ UNCHANGED <<lineM, rest>>
    \/ /\ At("endTransmission", "loop")
       /\ ~(loc.eI < txBufferIndex)
       /\ ~loc.eSendStop
       /\ Return(success)
       /\ UNCHANGED <<lineM, rest>>
    \/ /\ At("endTransmission", "stopped")
       /\ Return(success)
       /\ UNCHANGED <<lineM, rest>>

\* sendAckFor comparing with quantity instead of quantity - 1.
sendAckForOffByOne(i, quantity) == i # quantity

\* The sendAck argument requestFrom passes for byte i of quantity.
sendAckFor(i, quantity) == i # quantity - 1

\* The value requestFrom returns, a uint8_t.
requestFromResult == rxBufferIndex % 256

\* requestFrom(address, quantity, sendStop)
requestFrom ==
    \/ /\ \E address \in Addresses, quantity \in 0 .. MaxQuantity,
             sendStop \in BOOLEAN :
              Enter("requestFrom", quantity,
                    [loc EXCEPT !.rawAddr = start(address, readMode),
                                !.fQuantity = quantity, !.fSendStop = sendStop])
       /\ UNCHANGED <<busRest, tx, rxv, delay_us>>
    \/ /\ At("requestFrom", "0")
       /\ rxBufferBytesRead' = 0
       /\ Call("llStart", "started")
       /\ UNCHANGED <<rxBuffer, rxBufferSize, rxBufferIndex, lineM, slave, tx,
                      delay_us, ghost>>
    \/ /\ At("requestFrom", "started")
       /\ res = 0
       /\ GotoSet("loop", [loc EXCEPT !.fI = 0])
       /\ UNCHANGED <<lineM, rest>>
    \/ /\ At("requestFrom", "started")
       /\ res # 0
       /\ Goto("end")
       /\ UNCHANGED <<lineM, rest>>
    \/ /\ At("requestFrom", "loop")
       /\ loc.fI < loc.fQuantity
       /\ CallSet("llRead", "read", ReadArgs(loc.fI, sendAckFor(loc.fI, loc.fQuantity)))
       /\ UNCHANGED <<lineM, rest>>
    \/ /\ At("requestFrom", "loop")
       /\ ~(loc.fI < loc.fQuantity)
       /\ Goto("end")
       /\ UNCHANGED <<lineM, rest>>
    \/ /\ At("requestFrom", "read")
       /\ res # 0
       /\ Goto("end")
       /\ UNCHANGED <<lineM, rest>>
    \/ /\ At("requestFrom", "read")
       /\ res = 0
       /\ rxBufferBytesRead' = rxBufferBytesRead + 1
       /\ GotoSet("loop", [loc EXCEPT !.fI = (loc.fI + 1) % 256])
       /\ UNCHANGED <<rxBuffer, rxBufferSize, rxBufferIndex, lineM, slave, tx,
                      delay_us, ghost>>
    \/ /\ At("requestFrom", "end")
       /\ loc.fSendStop
       /\ Call("stop", "stopped")
       /\ UNCHANGED <<lineM, rest>>
    \/ /\ At("requestFrom", "end")
       /\ ~loc.fSendStop
       /\ Return(requestFromResult)
       /\ UNCHANGED <<lineM, rest>>
    \/ /\ At("requestFrom", "stopped")
       /\ Return(requestFromResult)
       /\ UNCHANGED <<lineM, rest>>

\* -------------------------------------------------------------------- CRC-8
\* a ^ b on unsigned integers.
RECURSIVE Xor(_, _)
Xor(a, b) ==
    IF a = 0 THEN b
    ELSE IF b = 0 THEN a
    ELSE (((a % 2) + (b % 2)) % 2) + 2 * Xor(a \div 2, b \div 2)

\* const uint16_t polynomial = 0x107
polynomial == 263

\* crcStep testing the lowest bit instead of the highest.
crcStepLowBit(crc) ==
    IF crc % 2 = 1 THEN Xor(crc * 2, polynomial) % 256 ELSE (crc * 2) % 256

\* One round of the loop of crc8_update: the shift is done in 16 bits and
\* the result stored back into the uint8_t crc.
crcStep(crc) ==
    IF crc \div 128 = 1 THEN Xor(crc * 2, polynomial) % 256 ELSE (crc * 2) % 256

\* The loop "for (uint8_t i = 8; i; --i)" of crc8_update.
RECURSIVE crcLoop(_, _)
crcLoop(crc, i) == IF i = 0 THEN crc ELSE crcLoop(crcStep(crc), i - 1)

\* crc8_update(crc, data)
crc8_update(crc, data) == crcLoop(Xor(crc, data), 8)

\* The caller holds a running checksum crc and a byte data to pass to
\* crc8_update.
InitCrc ==
    \E crc \in Bytes, data \in Bytes :
        InitObject(8, [k \in 0 .. TxBufferSize - 1 |-> 0], 0, RxBufferSize,
                   [op |-> "crc8_in", val |-> 0, arg |-> <<crc, data>>])

\* The call crc8_update(crc, data) on the values the caller holds.
crc8_call ==
    /\ ret.op = "crc8_in"
    /\ Atomic("crc8_update", crc8_update(ret.arg[1], ret.arg[2]), ret.arg)
    /\ UNCHANGED <<busRest, tx, rxv, delay_us>>

\* A caller folding a byte sequence from 0, one crc8_update per byte: the
\* bytes folded so far and the running value are kept in ret.
crc8_fold ==
    \E data \in CrcBytes :
        LET folding == ret.op = "crc8_fold"
            sofar == IF folding THEN ret.arg ELSE <<>>
            crc == IF folding THEN ret.val ELSE 0
        IN  /\ folding \/ (ret.op = "crc8_update" /\ ret.arg = <<0, 0>>)
            /\ Len(sofar) < MaxCrcLen
            /\ Atomic("crc8_fold", crc8_update(crc, data), Append(sofar, data))
            /\ UNCHANGED <<busRest, tx, rxv, delay_us>>

\* ----------------------------------------------------------- specifications
Env == SlaveScl \/ TimerExpire

\* The transmit side: buffered writes and endTransmission.
NextTx ==
    \/ beginTransmission \/ write \/ writeBytes \/ endTransmission
    \/ llStart \/ llWrite \/ stop \/ setSclHighAndStretch
    \/ Env
SpecTx == Init /\ [][NextTx]_vars

\* The receive side: requestFrom and the buffered reader.
NextRx ==
    \/ requestFrom \/ read \/ peek \/ available
    \/ llStart \/ llWrite \/ llRead \/ stop \/ setSclHighAndStretch
    \/ Env
SpecRx == Init /\ [][NextRx]_vars

\* requestFrom alone.
NextReq ==
    \/ requestFrom
    \/ llStart \/ llWrite \/ llRead \/ stop \/ setSclHighAndStretch
    \/ Env
SpecReq == Init /\ [][NextReq]_vars

\* requestFrom on an object whose receive buffer is shorter than the request.
SpecRxCapacity == InitRxCapacity /\ [][NextReq]_vars

\* The bit engine called directly: the conditions, ...
NextStop ==
    \/ stop \/ begin \/ llStartWait
    \/ llWrite \/ setSclHighAndStretch
    \/ Env
SpecStop == Init /\ [][NextStop]_vars

\* ... shift-out-byte ...
NextWrite ==
    \/ llWriteCall
    \/ llWrite \/ stop \/ setSclHighAndStretch
    \/ Env
SpecWrite == Init /\ [][NextWrite]_vars

\* ... and shift-in-byte.
NextRead ==
    \/ llReadCall
    \/ llRead \/ stop \/ setSclHighAndStretch
    \/ Env
SpecRead == Init /\ [][NextRead]_vars

\* Every call that drives the bus, under the scheduling of the code: the
\* single thread of control keeps running, and a running timer expires.
Master ==
    \/ stop \/ llStartWait \/ endTransmission \/ requestFrom
    \/ llStart \/ llWrite \/ llRead \/ setSclHighAndStretch
NextLive == Master \/ Env
SpecLive ==
    InitLive /\ [][NextLive]_vars /\ WF_vars(Master) /\ WF_vars(TimerExpire)

\* The clock configuration.
NextClock == setClock
SpecClock == Init /\ [][NextClock]_vars

\* The checksum routine.
NextCrc == crc8_call \/ crc8_fold
SpecCrc == InitCrc /\ [][NextCrc]_vars

\* ------------------------------------------------------------------ claims
Min(a, b) == IF a < b THEN a ELSE b
Max(a, b) == IF a > b THEN a ELSE b

\* A public call op has returned and no other has been made since.
Returned(op) == Idle /\ ret.op = op

\* The bytes endTransmission is to shift out: the address byte in write
\* direction, then the buffered bytes in the order written.
ToSend ==
    <<(txAddress * 2) % 256>> \o [k \in 1 .. txBufferIndex |-> txBuffer[k - 1]]

\* C1: endTransmission shifts out the address byte (write direction) and then
\* the buffered bytes in the order written, stops at the first outcome that
\* is not an acknowledge, and returns 2 exactly when the address byte was not
\* acknowledged, 3 exactly when a data byte was not acknowledged, 4 exactly
\* when a byte timed out, 0 exactly when every byte was acknowledged, and
\* nothing else.
C1_EndTransmissionStatus ==
    Returned("endTransmission") =>
        LET n == Len(wLog)
        IN  /\ n >= 1 /\ n <= Len(ToSend)
            /\ \A k \in 1 .. n : wLog[k][1] = ToSend[k]
            /\ \A k \in 1 .. n - 1 : wLog[k][2] = ack
            /\ ret.val \in {0, 2, 3, 4}
            /\ ret.val = 2 <=> (n = 1 /\ wLog[n][2] = nack)
            /\ ret.val = 3 <=> (n > 1 /\ wLog[n][2] = nack)
            /\ ret.val = 4 <=> wLog[n][2] = timedOut
            /\ ret.val = 0 <=> (n = Len(ToSend) /\ wLog[n][2] = ack)

\* C1 witness: a transmission of two different bytes whose second data byte
\* was not acknowledged.
C1_Witness ==
    /\ Returned("endTransmission")
    /\ ret.val = 3
    /\ Len(wLog) = 3
    /\ wLog[2][1] # wLog[3][1]

\* C2: when endTransmission returns 2 or 3 (the slave did not acknowledge),
\* the master is driving neither SDA nor SCL low.
C2_IdleAfterNack ==
    (Returned("endTransmission") /\ ret.val \in {2, 3}) => (~sdaLow /\ ~sclLow)

\* C3: whenever llWrite or llRead returns timedOut, the stop sequence has run
\* to its end, so the master has released both SDA and SCL at the moment of
\* the return.
C3_StopIssuedOnTimeout ==
    (lastRet.f \in {"llWrite", "llRead"} /\ lastRet.r = timedOut)
        => (~sdaLow /\ ~sclLow)

\* C4: every call of stop, endTransmission, requestFrom and llStartWait
\* eventually returns, whatever the slave does, given that the thread keeps
\* running and each running deadline timer eventually expires.
C4_EveryCallReturns == (~Idle) ~> Idle

\* C4 witness: a stop that waited for SCL until its deadline has returned
\* timedOut while the slave still holds SCL low.
C4_Witness ==
    /\ Returned("stop")
    /\ ret.val = timedOut
    /\ slvScl

\* C5: requestFrom returns the number of bytes it stored, which is the number
\* of llRead calls that succeeded, and never more than the quantity asked.
C5_RequestFromCount ==
    Returned("requestFrom") =>
        /\ ret.val = rxBufferBytesRead
        /\ ret.val = okReads
        /\ ret.val <= ret.arg

\* C6: read returns the byte at the cursor and then advances the cursor by
\* one, or returns -1 when nothing is left; peek returns what the next read
\* would return; available is the count received minus the bytes consumed.
C6_ReadReturnsCursorByte ==
    /\ Returned("read") =>
           IF ret.arg < rxBufferBytesRead
           THEN ret.val = rxBuffer[ret.arg] /\ rxBufferIndex = ret.arg + 1
           ELSE ret.val = -1 /\ rxBufferIndex = ret.arg
    /\ Returned("peek") =>
           /\ rxBufferIndex = ret.arg
           /\ ret.val = IF ret.arg < rxBufferBytesRead THEN rxBuffer[ret.arg]
                        ELSE -1
    /\ Returned("available") => ret.val = rxBufferBytesRead - rxBufferIndex

\* C7: between calls the read cursor is at most the count of bytes received by
\* the last request.
C7_CursorWithinCount == Idle => rxBufferIndex <= rxBufferBytesRead

\* A step that is a call of op.
Called(op) == Idle /\ ret'.op = op /\ (ret' # ret \/ tx' # tx)

\* C8: the write cursor is at most the capacity; a single-byte write on a full
\* buffer returns 0, sets the write-error flag and leaves the cursor and the
\* buffer unchanged; on a buffer that is not full it returns 1 and appends the
\* byte; write(bytes, count) returns min(count, free space), the number of
\* bytes appended, the bytes buffered before staying as they were.
C8_WriteBounded ==
    /\ [](txBufferIndex <= txBufferSize)
    /\ [][/\ (Called("write") /\ txBufferIndex >= txBufferSize) =>
                 /\ ret'.val = 0
                 /\ writeError'
                 /\ txBufferIndex' = txBufferIndex
                 /\ txBuffer' = txBuffer
          /\ (Called("write") /\ txBufferIndex < txBufferSize) =>
                 /\ ret'.val = 1
                 /\ txBufferIndex' = txBufferIndex + 1
                 /\ txBuffer' = [txBuffer EXCEPT ![txBufferIndex] = ret'.arg]
                 /\ writeError' = writeError
          /\ Called("writeBytes") =>
                 /\ ret'.val = Min(ret'.arg, txBufferSize - txBufferIndex)
                 /\ txBufferIndex' = txBufferIndex + ret'.val
                 /\ \A k \in 0 .. txBufferIndex - 1 : txBuffer'[k] = txBuffer[k]
                 /\ writeError' = (writeError \/ ret'.val < ret'.arg)]_vars

\* C8 witness: a single-byte write on a full buffer has returned 0.
C8_Witness ==
    /\ Returned("write")
    /\ ret.val = 0
    /\ writeError
    /\ txBufferIndex = txBufferSize

\* C9: in a requestFrom of N >= 1 bytes the master answers the 9th clock of
\* every byte but the N-th with an acknowledge (SDA driven low) and that of
\* the N-th with a not-acknowledge (SDA released); without a failure there are
\* exactly N answers.
C9_AckAllButLast ==
    (OnStack("requestFrom") \/ Returned("requestFrom")) =>
        /\ \A k \in 1 .. Len(ackLog) : ackLog[k] = (k # ret.arg)
        /\ Len(ackLog) <= ret.arg
        /\ (Returned("requestFrom") /\ okReads = ret.arg) => Len(ackLog) = ret.arg

\* C9 witness: a request of at least two bytes has been served in full.
C9_Witness ==
    /\ Returned("requestFrom")
    /\ ret.arg >= 2
    /\ okReads = ret.arg
    /\ Len(ackLog) = ret.arg

\* C10: setClock(frequency) sets the half-bit delay to
\* clamp(1000000 / frequency, 2, 510) / 2, which lies in 1..255: 100000 gives
\* 5, anything above 500000 gives 1, anything below 1961 gives 255.
C10_ClockDelay ==
    ret.op = "setClock" =>
        /\ delay_us = Max(2, Min(1000000 \div ret.arg, 510)) \div 2
        /\ delay_us \in 1 .. 255
        /\ ret.arg = 100000 => delay_us = 5
        /\ ret.arg > 500000 => delay_us = 1
        /\ ret.arg < 1961 => delay_us = 255

\* C10 witness: the standard 100 kHz clock was set.
C10_Witness == ret.op = "setClock" /\ ret.arg = 100000 /\ delay_us = 5

\* The reference CRC-8 step on an 8-bit value: shift left, and XOR with 0x07
\* when the bit shifted out is 1.
RefShift(c) ==
    LET shifted == (c * 2) % 256
    IN  IF c >= 128 THEN Xor(shifted, 7) ELSE shifted

RefCrc(crc, data) ==
    RefShift(RefShift(RefShift(RefShift(RefShift(RefShift(RefShift(RefShift(
        Xor(crc, data)))))))))

\* Folding the bytes of data from the k-th on, with the reference step and
\* with crc8_update.
RECURSIVE RefFold(_, _, _)
RefFold(crc, data, k) ==
    IF k > Len(data) THEN crc ELSE RefFold(RefCrc(crc, data[k]), data, k + 1)

RECURSIVE CrcFold(_, _, _)
CrcFold(crc, data, k) ==
    IF k > Len(data) THEN crc ELSE CrcFold(crc8_update(crc, data[k]), data, k + 1)

\* C11: crc8_update(crc, data) is a byte and equals the reference CRC-8 step
\* for every crc and data in 0..255; a fold from 0 kept across calls equals
\* the reference fold, <<0>> folds to 0, "123456789" folds to 0xF4, and
\* folding a prefix and then the suffix from the intermediate value gives the
\* same value at every split point.
C11_Crc8Reference ==
    /\ ret.op = "crc8_update" =>
           /\ ret.val \in 0 .. 255
           /\ ret.val = RefCrc(ret.arg[1], ret.arg[2])
    /\ ret.op = "crc8_fold" =>
           /\ ret.val = RefFold(0, ret.arg, 1)
           /\ ret.arg = <<0>> => ret.val = 0
           /\ \A k \in 0 .. Len(ret.arg) :
                  CrcFold(CrcFold(0, SubSeq(ret.arg, 1, k), 1),
                          SubSeq(ret.arg, k + 1, Len(ret.arg)), 1) = ret.val
           /\ CrcFold(0, <<49, 50, 51, 52, 53, 54, 55, 56, 57>>, 1) = 244

\* C11 witness: a fold of two bytes or more, the conditional XOR having
\* been taken, has given a non-zero checksum.
C11_Witness ==
    /\ ret.op = "crc8_fold"
    /\ Len(ret.arg) >= 2
    /\ ret.arg[1] >= 128
    /\ ret.val # 0

\* The wait of the latest stop ran into its deadline.
StopExpired == \E k \in 1 .. Len(events) : events[k] = "deadline expired"

\* C12: a stop whose wait for SCL did not run into the deadline (no slave
\* holding the clock low), called in any reachable state of the bus, returns
\* ack with both lines released by the master; so does a stop called right
\* after a stop, and so does begin.
C12_StopIdempotent ==
    /\ (Returned("stop") /\ ~StopExpired) =>
           (ret.val = ack /\ ~sdaLow /\ ~sclLow)
    /\ (Returned("begin") /\ ~StopExpired) => (~sdaLow /\ ~sclLow)

\* C12 witness: a stop called right after a stop that returned ack has
\* returned ack with both lines released.
C12_Witness ==
    /\ Returned("stop")
    /\ ret.arg = 1
    /\ ~StopExpired
    /\ ret.val = ack
    /\ ~sdaLow /\ ~sclLow

\* The step is the return of f to its caller.
Returns(f) == stack # <<>> /\ Top.f = f /\ stack' = Tail(stack)

\* C13: llStartWait returns ack, or timedOut once its deadline has elapsed;
\* a not-acknowledged attempt made before the deadline is followed by another
\* attempt, never by a return.
C13_StartWaitRetries ==
    [][Returns("llStartWait") =>
           \/ lastRet'.r = ack
           \/ lastRet'.r = timedOut /\ expired["llStartWait"]]_vars

\* C14: endTransmission does not return the success status when the last
\* bit-engine call it made, the final stop included, returned timedOut.
C14_TimeoutPropagated ==
    [][(Returns("endTransmission") /\ res = timedOut) =>
           lastRet'.r # success]_vars

\* C15 as claimed: llWrite leaves SCL driven low by the master whatever it
\* returns.
C15_SclLowOnEveryReturn == lastRet.f = "llWrite" => sclLow

\* C15 as amended: llWrite leaves SCL driven low by the master when it returns
\* ack or nack.
C15_SclLowOnAckOrNack ==
    (lastRet.f = "llWrite" /\ lastRet.r \in {ack, nack}) => sclLow

\* C15 witness: llWrite has returned nack, SCL driven low.
C15_Witness == lastRet.f = "llWrite" /\ lastRet.r = nack /\ sclLow

\* Bit k of the byte b, bit 0 the least significant.
Bit(b, k) == (b \div (2 ^ k)) % 2

\* f has a frame that is at label l.
OnLabel(f, l) == \E k \in 1 .. Len(stack) : stack[k] = [f |-> f, l |-> l]

\* C16: on the clock pulse made with loop counter i = 8, ..., 1 llWrite holds
\* SDA low when bit i - 1 of its argument is 0 and released when it is 1; it
\* changes SDA only while it drives SCL low; on the 9th pulse SDA is released
\* and it is sampled with SCL released; and llWrite returns ack when the
\* sample was low, nack when it was high.
C16_WriteMsbFirst ==
    /\ [](/\ OnLabel("llWrite", "clocked") =>
                 (sdaLow <=> Bit(loc.wByte, loc.wI - 1) = 0)
          /\ OnLabel("llWrite", "ackClocked") => (loc.wI = 0 /\ ~sdaLow)
          /\ (At("llWrite", "ackClocked") /\ stretchOk) => ~sclLow
          /\ (lastRet.f = "llWrite" /\ lastRet.r # timedOut) =>
                 (lastRet.r = (IF slvSda THEN ack ELSE nack)))
    /\ [][(stack # <<>> /\ Top.f = "llWrite" /\ sdaLow' # sdaLow) => sclLow]_vars

\* C16 witness: llWrite(0xA5) has returned ack, the slave holding SDA low.
C16_Witness ==
    /\ lastRet = [f |-> "llWrite", r |-> ack]
    /\ wLog = <<<<165, ack>>>>
    /\ slvSda

\* The byte whose bits are b[1], ..., b[8], b[1] the most significant.
ByteOf(b) ==
    b[1] * 128 + b[2] * 64 + b[3] * 32 + b[4] * 16 + b[5] * 8 + b[6] * 4
        + b[7] * 2 + b[8]

\* C17: an llRead that returned ack took 8 samples of SDA and left in data the
\* byte whose bit 7 is the first sample and bit 0 the last; the master has
\* SDA released during the 8 data pulses; every sample is taken with SCL read
\* high; and llRead returns ack unless its deadline has expired, whatever
\* sendAck is.
C17_ReadMsbFirst ==
    /\ []((lastRet = [f |-> "llRead", r |-> ack]) =>
              (Len(samples) = 8 /\ rxBuffer[0] = ByteOf(samples)))
    /\ []((OnLabel("llRead", "clocked") \/ At("llRead", "sample")) => ~sdaLow)
    /\ [][samples' # samples /\ samples' # <<>> => readScl]_vars
    /\ [][Returns("llRead") =>
              \/ lastRet'.r = ack
              \/ lastRet'.r = timedOut /\ expired["llRead"]]_vars

\* C17 witness: llRead(data, false) has returned ack with data = 0xA5.
C17_Witness ==
    /\ lastRet = [f |-> "llRead", r |-> ack]
    /\ Returned("llRead")
    /\ ret.arg = 0
    /\ samples = <<1, 0, 1, 0, 0, 1, 0, 1>>
    /\ rxBuffer[0] = 165

\* C18: a stop that has returned made its line events in the order SCL low,
\* SDA low, SCL released, SCL read high, SDA released and returned ack, or it
\* ran into its deadline waiting for SCL, did not release SDA and returned
\* timedOut; SDA is driven low with SCL driven low, and is released only with
\* SCL released and seen high.
C18_StopOrder ==
    /\ [](lastRet.f = "stop" =>
              \/ /\ lastRet.r = ack
                 /\ events = <<"SCL low", "SDA low", "SCL released",
                               "SCL read high", "SDA released">>
              \/ /\ lastRet.r = timedOut
                 /\ events = <<"SCL low", "SDA low", "SCL released",
                               "deadline expired">>
                 /\ sdaLow)
    /\ [](At("stop", "sda") => sclLow)
    /\ [](OnLabel("stop", "stretched") => sdaLow)
    /\ [][(stack # <<>> /\ Top.f = "stop" /\ sdaLow /\ ~sdaLow') =>
              (stretchOk /\ ~sclLow)]_vars
    /\ [][(stack # <<>> /\ Top.f = "setSclHighAndStretch"
              /\ CallerTimer = "stop" /\ stack' = Tail(stack) /\ ~stretchOk') =>
              (~readScl /\ expired["stop"])]_vars

\* C18 witness: a stop has returned timedOut, having made the first three
\* line events and run into its deadline.
C18_Witness ==
    /\ lastRet = [f |-> "stop", r |-> timedOut]
    /\ Len(events) = 4
    /\ sdaLow /\ ~sclLow

\* C19: whenever llStart is about to shift out an address byte, its first
\* step makes a start condition: the master does not hold SCL low when it
\* drives SDA low, so that the fall of SDA happens while SCL is high.
C19_StartBeforeAddress ==
    At("llStart", "0") => ~sclLow

\* C20: while llRead runs for requestFrom, the cell its reference points at
\* lies inside the receive buffer, and the count of received bytes never
\* exceeds the capacity of the buffer.
C20_StoresBelowCapacity ==
    /\ (OnStack("llRead") /\ OnStack("requestFrom")) => loc.rIdx < rxBufferSize
    /\ rxBufferBytesRead <= rxBufferSize

====
